---- MODULE Spec2Model ----
(***************************************************************************)
(* A model of src/src/lib.rs, the RIS bibliography (de)serializer:         *)
(* RIS::from_str and Entry::from_str (the parsers, one loop step per       *)
(* input line), PartialEntry::parse_line, set_unique_field, the            *)
(* PublicationDate and ReferenceType codecs, and the Display impls.        *)
(*                                                                         *)
(* Text is modelled by TLA+ strings (ASCII); an Option<T> is a sequence of *)
(* length at most one; a Result is a record with the field ok.             *)
(***************************************************************************)
EXTENDS Integers, Sequences, FiniteSets, TLC

VARIABLES
    pc,             \* which function is running, or "returned"
    s,              \* the text given to from_str / produced by to_string
    lines,          \* the rest of the iterator s.lines()
    line_no,        \* local line_no of from_str
    current_entry,  \* local current_entry (RIS) / partial (Entry): a PartialEntry
    entries,        \* local entries of RIS::from_str
    value,          \* the value given to to_string (an Entry or a RIS), if any
    ret,            \* the value returned by the last from_str, if any
    round,          \* how many to_string calls were made
    ty              \* the type whose from_str / to_string is called: "RIS" or "Entry"

vars == <<pc, s, lines, line_no, current_entry, entries, value, ret, round, ty>>

-----------------------------------------------------------------------------
(* Option and Result *)

None == <<>>
Some(v) == <<v>>
IsSome(o) == o # <<>>
Unwrap(o) == o[1]

Ok(v) == [ok |-> TRUE, val |-> v]
Err(e) == [ok |-> FALSE, err |-> e]

-----------------------------------------------------------------------------
(* Characters and strings *)

Upper == {"A", "B", "C", "D", "E", "F", "G", "H", "I", "J", "K", "L", "M",
          "N", "O", "P", "Q", "R", "S", "T", "U", "V", "W", "X", "Y", "Z"}

Digits == <<"0", "1", "2", "3", "4", "5", "6", "7", "8", "9">>

Digit == {Digits[i] : i \in 1..10}

Char(str, i) == SubSeq(str, i, i)

Min(S) == CHOOSE x \in S : \A y \in S : x <= y

\* str::lines: the text is split at each "\n", a "\r" right before the "\n"
\* is dropped with it, and the last line needs no line ending.
StrLines(str) ==
    LET ends   == {i \in 1..Len(str) : Char(str, i) = "\n"}
        stops  == IF str = "" \/ Len(str) \in ends THEN ends ELSE ends \cup {Len(str) + 1}
        nth(j) == CHOOSE p \in stops : Cardinality({q \in stops : q <= p}) = j
        from(j) == IF j = 1 THEN 1 ELSE nth(j - 1) + 1
        to(j)  == IF nth(j) \in ends /\ nth(j) > from(j) /\ Char(str, nth(j) - 1) = "\r"
                  THEN nth(j) - 2 ELSE nth(j) - 1
    IN  [j \in 1..Cardinality(stops) |-> SubSeq(str, from(j), to(j))]

\* str::parse::<i32> on a string of decimal digits (the only strings the
\* date regex hands to it): None stands for Err(ParseIntError).
DigitValue(c) == (CHOOSE i \in 1..10 : Digits[i] = c) - 1

RECURSIVE DecimalValue(_, _)
DecimalValue(str, i) ==
    IF i = 0 THEN 0
    ELSE 10 * DecimalValue(str, i - 1) + DigitValue(Char(str, i))

ParseI32(str) ==
    IF str = "" \/ \E i \in 1..Len(str) : Char(str, i) \notin Digit
    THEN None
    ELSE Some(DecimalValue(str, Len(str)))

\* The decimal digits of n >= 0, as Display for i32 writes them.
RECURSIVE Decimal(_)
Decimal(n) ==
    IF n < 10 THEN Digits[n + 1]
    ELSE Decimal(n \div 10) \o Digits[(n % 10) + 1]

RECURSIVE ZeroPad(_, _)
ZeroPad(str, width) ==
    IF Len(str) >= width THEN str ELSE ZeroPad("0" \o str, width)

\* format!("{:0width$}", n) for an i32: sign-aware zero padding.
FormatI32(n, width) ==
    IF n < 0 THEN "-" \o ZeroPad(Decimal(-n), width - 1)
    ELSE ZeroPad(Decimal(n), width)

-----------------------------------------------------------------------------
(* ReferenceType *)

\* The arms of ReferenceType::from_str, <<code, variant>>, and then of
\* ReferenceType::fmt, <<variant, code>>, each in source order.

ReferenceTypeCodes ==
    <<
       <<"ABST", "Abstract">>, <<"ADVS", "AudiovisualMaterial">>, <<"AGGR", "AggregatedDatabase">>,
       <<"ANCIENT", "AncientText">>, <<"ART", "ArtWork">>, <<"BILL", "Bill">>,
       <<"BLOG", "Blog">>, <<"BOOK", "WholeBook">>, <<"CASE", "Case">>,
       <<"CHAP", "BookChapter">>, <<"CHART", "Chart">>, <<"CLSWK", "ClassicalWork">>,
       <<"COMP", "ComputerProgram">>, <<"CONF", "ConferenceProceeding">>, <<"CPAPER", "ConferencePaper">>,
       <<"CTLG", "Catalog">>, <<"DATA", "DataFile">>, <<"DBASE", "OnlineDatabase">>,
       <<"DICT", "Dictionary">>, <<"EBOOK", "ElectronicBook">>, <<"ECHAP", "ElectronicBookSection">>,
       <<"EDBOOK", "EditedBook">>, <<"EJOUR", "ElectronicArticle">>, <<"ELEC", "WebPage">>,
       <<"ENCYC", "Encyclopedia">>, <<"EQUA", "Equation">>, <<"FIGURE", "Figure">>,
       <<"GEN", "Generic">>, <<"GOVDOC", "GovernmentDocument">>, <<"GRANT", "Grant">>,
       <<"HEAR", "Hearing">>, <<"ICOMM", "InternetCommunication">>, <<"INPR", "InPress">>,
       <<"JFULL", "JournalFull">>, <<"JOUR", "Journal">>, <<"LEGAL", "LegalRuleOrRegulation">>,
       <<"MANSCPT", "Manuscript">>, <<"MAP", "Map">>, <<"MGZN", "MagazineArticle">>,
       <<"MPCT", "MotionPicture">>, <<"MULTI", "OnlineMultimedia">>, <<"MUSIC", "MusicScore">>,
       <<"NEWS", "Newspaper">>, <<"PAMP", "Pamphlet">>, <<"PAT", "Patent">>,
       <<"PCOMM", "PersonalCommunication">>, <<"RPRT", "Report">>, <<"SER", "SerialPublication">>,
       <<"SLIDE", "Slide">>, <<"SOUND", "SoundRecording">>, <<"STAND", "Standard">>,
       <<"STAT", "Statute">>, <<"THES", "ThesisOrDissertation">>, <<"UNPB", "UnpublishedWork">>,
       <<"VIDEO", "VideoRecording">>
    >>

ReferenceTypeNames ==
    <<
       <<"Abstract", "ABST">>, <<"AudiovisualMaterial", "ADVS">>, <<"AggregatedDatabase", "AGGR">>,
       <<"AncientText", "ANCIENT">>, <<"ArtWork", "ART">>, <<"Bill", "BILL">>,
       <<"Blog", "BLOG">>, <<"WholeBook", "BOOK">>, <<"Case", "CASE">>,
       <<"BookChapter", "CHAP">>, <<"Chart", "CHART">>, <<"ClassicalWork", "CLSWK">>,
       <<"ComputerProgram", "COMP">>, <<"ConferenceProceeding", "CONF">>, <<"ConferencePaper", "CPAPER">>,
       <<"Catalog", "CTLG">>, <<"DataFile", "DATA">>, <<"OnlineDatabase", "DBASE">>,
       <<"Dictionary", "DICT">>, <<"ElectronicBook", "EBOOK">>, <<"ElectronicBookSection", "ECHAP">>,
       <<"EditedBook", "EDBOOK">>, <<"ElectronicArticle", "EJOUR">>, <<"WebPage", "ELEC">>,
       <<"Encyclopedia", "ENCYC">>, <<"Equation", "EQUA">>, <<"Figure", "FIGURE">>,
       <<"Generic", "GEN">>, <<"GovernmentDocument", "GOVDOC">>, <<"Grant", "GRANT">>,
       <<"Hearing", "HEAR">>, <<"InternetCommunication", "ICOMM">>, <<"InPress", "INPR">>,
       <<"JournalFull", "JFULL">>, <<"Journal", "JOUR">>, <<"LegalRuleOrRegulation", "LEGAL">>,
       <<"Manuscript", "MANSCPT">>, <<"Map", "MAP">>, <<"MagazineArticle", "MGZN">>,
       <<"MotionPicture", "MPCT">>, <<"OnlineMultimedia", "MULTI">>, <<"MusicScore", "MUSIC">>,
       <<"Newspaper", "NEWS">>, <<"Pamphlet", "PAMP">>, <<"Patent", "PAT">>,
       <<"PersonalCommunication", "PCOMM">>, <<"Report", "RPRT">>, <<"SerialPublication", "SER">>,
       <<"Slide", "SLIDE">>, <<"SoundRecording", "SOUND">>, <<"Standard", "STAND">>,
       <<"Statute", "STAT">>, <<"ThesisOrDissertation", "THES">>, <<"UnpublishedWork", "UNPB">>,
       <<"VideoRecording", "VIDEO">>
    >>

Other(code) == <<"Other", code>>

Variant(name) == <<name>>

\* impl FromStr for ReferenceType: never fails.
ReferenceType_from_str(str) ==
    LET hits == {i \in 1..Len(ReferenceTypeCodes) : ReferenceTypeCodes[i][1] = str} IN
    IF hits = {} THEN Other(str)
    ELSE Variant(ReferenceTypeCodes[Min(hits)][2])

\* Mutant: the arm of JournalFull writes the code of Journal.
ReferenceType_fmt_Swapped(self) ==
    IF self[1] = "Other" THEN self[2]
    ELSE IF self[1] = "JournalFull" THEN "JOUR"
    ELSE LET i == CHOOSE i \in 1..Len(ReferenceTypeNames) : ReferenceTypeNames[i][1] = self[1]
         IN  ReferenceTypeNames[i][2]

\* impl Display for ReferenceType
ReferenceType_fmt(self) ==
    IF self[1] = "Other" THEN self[2]
    ELSE LET i == CHOOSE i \in 1..Len(ReferenceTypeNames) : ReferenceTypeNames[i][1] = self[1]
         IN  ReferenceTypeNames[i][2]

-----------------------------------------------------------------------------
(* PublicationDate *)

PublicationDate_new(year, month, day, other_info) ==
    [year |-> year, month |-> month, day |-> day, other_info |-> other_info]

SlashAt(str, p) == p <= Len(str) /\ Char(str, p) = "/"

TwoDigitsAt(str, p) ==
    p + 1 <= Len(str) /\ Char(str, p) \in Digit /\ Char(str, p + 1) \in Digit

\* DATE_RE is (\d\d\d\d)(?:/(\d\d)?(?:/(\d\d)?(?:/(.+)?)?)?)? : each optional part
\* is taken when it matches, and no part has to match for the whole to match.
\* (?:/(.+)?)? at position p: group 4.
DATE_RE_other(str, p) ==
    IF SlashAt(str, p) /\ p + 1 <= Len(str)
    THEN Some(SubSeq(str, p + 1, Len(str)))
    ELSE None

\* (?:/(\d\d)?(?:/(.+)?)?)? at position p: groups 3 and 4.
DATE_RE_day(str, p) ==
    IF ~SlashAt(str, p) THEN [g3 |-> None, g4 |-> None]
    ELSE IF TwoDigitsAt(str, p + 1)
    THEN [g3 |-> Some(SubSeq(str, p + 1, p + 2)), g4 |-> DATE_RE_other(str, p + 3)]
    ELSE [g3 |-> None, g4 |-> DATE_RE_other(str, p + 1)]

\* (?:/(\d\d)?(?:/(\d\d)?(?:/(.+)?)?)?)? at position p: groups 2, 3 and 4.
DATE_RE_month(str, p) ==
    IF ~SlashAt(str, p) THEN [g2 |-> None, rest |-> [g3 |-> None, g4 |-> None]]
    ELSE IF TwoDigitsAt(str, p + 1)
    THEN [g2 |-> Some(SubSeq(str, p + 1, p + 2)), rest |-> DATE_RE_day(str, p + 3)]
    ELSE [g2 |-> None, rest |-> DATE_RE_day(str, p + 1)]

DATE_RE_groups(g1, tail) ==
    [g1 |-> g1, g2 |-> tail.g2, g3 |-> tail.rest.g3, g4 |-> tail.rest.g4]

\* DATE_RE.captures(str): the leftmost match anywhere in str (the pattern
\* has no anchors), as its four capture groups, or None.
DATE_RE(str) ==
    LET starts == {i \in 1..(Len(str) - 3) :
                     \A j \in 0..3 : Char(str, i + j) \in Digit}
    IN  IF starts = {} THEN None
        ELSE Some(DATE_RE_groups(Some(SubSeq(str, Min(starts), Min(starts) + 3)),
                                 DATE_RE_month(str, Min(starts) + 4)))

\* m.as_str().parse() on an optional group: Option<Result<i32, _>>.
ParseGroup(g) == IF IsSome(g) THEN Some(ParseI32(Unwrap(g))) ELSE None

\* .transpose().map_err(|_| ParseDateError)? then Self::new(...)
PublicationDate_from_parts(year, month, day, other_info) ==
    IF year = None THEN Err("ParseDateError")
    ELSE IF IsSome(month) /\ Unwrap(month) = None THEN Err("ParseDateError")
    ELSE IF IsSome(day) /\ Unwrap(day) = None THEN Err("ParseDateError")
    ELSE Ok(PublicationDate_new(
              Unwrap(year),
              IF IsSome(month) THEN Unwrap(month) ELSE None,
              IF IsSome(day) THEN Unwrap(day) ELSE None,
              other_info))

PublicationDate_from_captures(matches) ==
    IF matches = None THEN Err("ParseDateError")
    ELSE PublicationDate_from_parts(
             ParseI32(Unwrap(Unwrap(matches).g1)),
             ParseGroup(Unwrap(matches).g2),
             ParseGroup(Unwrap(matches).g3),
             Unwrap(matches).g4)

\* impl FromStr for PublicationDate: Err(ParseDateError) is Err("ParseDateError").
PublicationDate_from_str(str) == PublicationDate_from_captures(DATE_RE(str))

\* Mutant: a separator is written only when a later component is present.
PublicationDate_fmt_Terse(self) ==
    FormatI32(self.year, 4)
    \o (IF IsSome(self.month) \/ IsSome(self.day) \/ IsSome(self.other_info)
        THEN "/" ELSE "")
    \o (IF IsSome(self.month) THEN FormatI32(Unwrap(self.month), 2) ELSE "")
    \o (IF IsSome(self.day) \/ IsSome(self.other_info) THEN "/" ELSE "")
    \o (IF IsSome(self.day) THEN FormatI32(Unwrap(self.day), 2) ELSE "")
    \o (IF IsSome(self.other_info) THEN "/" \o Unwrap(self.other_info) ELSE "")

\* impl Display for PublicationDate
PublicationDate_fmt(self) ==
    FormatI32(self.year, 4) \o "/"
    \o (IF IsSome(self.month) THEN FormatI32(Unwrap(self.month), 2) ELSE "")
    \o "/"
    \o (IF IsSome(self.day) THEN FormatI32(Unwrap(self.day), 2) ELSE "")
    \o "/"
    \o (IF IsSome(self.other_info) THEN Unwrap(self.other_info) ELSE "")

-----------------------------------------------------------------------------
(* ParseError *)

ParseErrorKind ==
    {"TagOutsideEntry", "UnterminatedEntry", "InvalidKey", "InvalidLine",
     "DuplicateField", "InvalidDate"}

ParseError_new(n, kind) == [line_no |-> n, kind |-> kind]

\* impl From<ParseDateError> for ParseErrorKind; the conversion from
\* Infallible panics and is never called, String::from_str having no error.
ParseErrorKind_from(e) ==
    IF e = "ParseDateError" THEN "InvalidDate" ELSE "panic"

-----------------------------------------------------------------------------
(* Entry *)

VecFields == {"authors", "secondary_authors", "tertiary_authors", "keywords"}

DateFields == {"primary_date", "secondary_date"}

StringFields ==
    {"id", "title", "secondary_title", "tertiary_title", "notes", "abstract_",
     "reprint", "availability", "caption", "call_number", "doi",
     "start_page", "end_page",
     "journal", "journal_abbrev", "journal_abbrev_1", "journal_abbrev_2",
     "volume", "issue", "city", "publisher", "serial_number", "address",
     "user_1", "user_2", "user_3", "user_4", "user_5",
     "custom_1", "custom_2", "custom_3", "custom_4", "custom_5",
     "custom_6", "custom_7", "custom_8",
     "misc_1", "misc_2", "misc_3"}

OptionFields == StringFields \cup DateFields

EntryFields == {"reference_type"} \cup OptionFields \cup VecFields

\* Entry::new: every Option field None, every Vec field empty.
Entry_new(reference_type) ==
    [f \in EntryFields |->
        IF f = "reference_type" THEN reference_type
        ELSE IF f \in VecFields THEN <<>> ELSE None]

\* <T as FromStr>::from_str for the two types of Option fields.
FromStr(T, str) ==
    IF T = "PublicationDate" THEN PublicationDate_from_str(str) ELSE Ok(str)

\* <T as Display>::fmt for the same.
Display(T, v) ==
    IF T = "PublicationDate" THEN PublicationDate_fmt(v) ELSE v

FieldType(f) == IF f \in DateFields THEN "PublicationDate" ELSE "String"

\* The else branch of set_unique_field, given value.parse().
set_parsed(field, parsed, n) ==
    IF parsed.ok
    THEN [field |-> Some(parsed.val), ret |-> Ok(<<>>)]
    ELSE [field |-> field,
          ret |-> Err(ParseError_new(n, ParseErrorKind_from(parsed.err)))]

\* Mutant: the value is parsed before the is_some check.
set_unique_field_ParseFirst(field, T, str, n) ==
    IF ~FromStr(T, str).ok
    THEN set_parsed(field, FromStr(T, str), n)
    ELSE IF IsSome(field)
    THEN [field |-> field, ret |-> Err(ParseError_new(n, "DuplicateField"))]
    ELSE set_parsed(field, FromStr(T, str), n)

\* Mutant: the is_some check is missing, a second value overwrites the first.
set_unique_field_Overwrite(field, T, str, n) ==
    set_parsed(field, FromStr(T, str), n)

\* set_unique_field(field: &mut Option<T>, value, line_no): the field as it
\* is left, and the Result.
set_unique_field(field, T, str, n) ==
    IF IsSome(field)
    THEN [field |-> field, ret |-> Err(ParseError_new(n, "DuplicateField"))]
    ELSE set_parsed(field, FromStr(T, str), n)

-----------------------------------------------------------------------------
(* PartialEntry *)

ParseState == {"Start", "InProgress", "End"}

PartialEntry_new == [entry |-> None, state |-> "Start"]

\* LINE_RE.captures(line): the leftmost match of ([A-Z][A-Z0-9])  - (.*)
\* anywhere in the line (the pattern has no anchors); a line of s.lines() has
\* no "\n", so (.*) runs to the end of the line.
LINE_RE(line) ==
    LET starts == {i \in 1..(Len(line) - 5) :
                     /\ Char(line, i) \in Upper
                     /\ Char(line, i + 1) \in Upper \cup Digit
                     /\ SubSeq(line, i + 2, i + 5) = "  - "}
    IN  IF starts = {} THEN None
        ELSE LET i == Min(starts) IN
             Some([g1 |-> SubSeq(line, i, i + 1),
                   g2 |-> SubSeq(line, i + 6, Len(line))])

\* The arms of `match key` that call set_unique_field on a fixed field:
\* <<key, field>>, in source order.
UniqueKeys ==
    <<
       <<"ID", "id">>,
       <<"T1", "title">>, <<"TI", "title">>,
       <<"T2", "secondary_title">>, <<"T3", "tertiary_title">>,
       <<"Y1", "primary_date">>, <<"PY", "primary_date">>, <<"DA", "primary_date">>,
       <<"Y2", "secondary_date">>,
       <<"N1", "notes">>,
       <<"AB", "abstract_">>, <<"N2", "abstract_">>,
       <<"RP", "reprint">>, <<"AV", "availability">>,
       <<"CA", "caption">>, <<"CN", "call_number">>, <<"DO", "doi">>,
       <<"SP", "start_page">>, <<"EP", "end_page">>,
       <<"JF", "journal">>, <<"JO", "journal">>,
       <<"JA", "journal_abbrev">>, <<"J1", "journal_abbrev_1">>,
       <<"J2", "journal_abbrev_2">>,
       <<"VL", "volume">>, <<"IS", "issue">>, <<"CY", "city">>,
       <<"PB", "publisher">>, <<"SN", "serial_number">>, <<"AD", "address">>,
       <<"U1", "user_1">>, <<"U2", "user_2">>, <<"U3", "user_3">>,
       <<"U4", "user_4">>, <<"U5", "user_5">>,
       <<"C1", "custom_1">>, <<"C2", "custom_2">>, <<"C3", "custom_3">>,
       <<"C4", "custom_4">>, <<"C5", "custom_5">>, <<"C6", "custom_6">>,
       <<"C7", "custom_7">>, <<"C8", "custom_8">>,
       <<"M1", "misc_1">>, <<"M2", "misc_2">>, <<"M3", "misc_3">>
    >>

\* The arms of `match key` that push onto a Vec field.
RepeatedKeys ==
    <<
       <<"A1", "authors">>, <<"AU", "authors">>,
       <<"A2", "secondary_authors">>, <<"ED", "secondary_authors">>,
       <<"A3", "tertiary_authors">>,
       <<"KW", "keywords">>
    >>

KeysOf(table) == {table[i][1] : i \in 1..Len(table)}

FieldOf(table, key) ==
    table[CHOOSE i \in 1..Len(table) : table[i][1] = key][2]

\* Mutant: only WholeBook sends BT to title.
BTField_BookOnly(reference_type) ==
    IF reference_type = Variant("WholeBook")
    THEN "title"
    ELSE "secondary_title"

\* The "BT" arm: the field chosen by the entry's reference type.
BTField(reference_type) ==
    IF reference_type \in {Variant("WholeBook"), Variant("UnpublishedWork")}
    THEN "title"
    ELSE "secondary_title"

\* Mutant: the TY line moves the parser to InProgress without creating the
\* entry.
parse_line_Start_NoEntry(self, key, str, n) ==
    IF key = "TY"
    THEN [self |-> [self EXCEPT !.state = "InProgress"], ret |-> Ok("InProgress")]
    ELSE [self |-> self, ret |-> Err(ParseError_new(n, "UnterminatedEntry"))]

\* Mutant: a tag with no entry open is reported as TagOutsideEntry.
parse_line_Start_TagOutside(self, key, str, n) ==
    IF key = "TY"
    THEN [self |-> [state |-> "InProgress",
                    entry |-> Some(Entry_new(ReferenceType_from_str(str)))],
          ret  |-> Ok("InProgress")]
    ELSE [self |-> self, ret |-> Err(ParseError_new(n, "TagOutsideEntry"))]

\* The ParseState::Start arm of parse_line.
parse_line_Start(self, key, str, n) ==
    IF key = "TY"
    THEN [self |-> [state |-> "InProgress",
                    entry |-> Some(Entry_new(ReferenceType_from_str(str)))],
          ret  |-> Ok("InProgress")]
    ELSE [self |-> self, ret |-> Err(ParseError_new(n, "UnterminatedEntry"))]

\* One set_unique_field arm, given what the call returned: self with the
\* field as the call left it.
SetField(self, f, r) ==
    [self |-> [self EXCEPT !.entry = Some([Unwrap(self.entry) EXCEPT ![f] = r.field])],
     ret  |-> IF r.ret.ok THEN Ok(self.state) ELSE r.ret]

SetUnique(self, f, str, n) ==
    SetField(self, f, set_unique_field(Unwrap(self.entry)[f], FieldType(f), str, n))

\* Mutant: the value replaces the list.
Push_Replace(self, f, str) ==
    [self |-> [self EXCEPT !.entry = Some([Unwrap(self.entry) EXCEPT ![f] = <<str>>])],
     ret  |-> Ok(self.state)]

\* Mutant: the value is inserted at the front of the list.
Push_Front(self, f, str) ==
    [self |-> [self EXCEPT !.entry = Some([Unwrap(self.entry) EXCEPT ![f] = <<str>> \o @])],
     ret  |-> Ok(self.state)]

\* One push arm.
Push(self, f, str) ==
    [self |-> [self EXCEPT !.entry = Some([Unwrap(self.entry) EXCEPT ![f] = Append(@, str)])],
     ret  |-> Ok(self.state)]

\* Mutant: ER ends the entry whatever its value.
parse_line_ER_AnyValue(self, str, n) ==
    [self |-> [self EXCEPT !.state = "End"], ret |-> Ok("End")]

\* The "ER" arm.
parse_line_ER(self, str, n) ==
    IF str = ""
    THEN [self |-> [self EXCEPT !.state = "End"], ret |-> Ok("End")]
    ELSE [self |-> self, ret |-> Err(ParseError_new(n, "InvalidLine"))]

\* Mutant: a nested TY is reported one line early.
parse_line_InProgress_LineBefore(self, key, str, n) ==
    IF key = "TY"
    THEN [self |-> self, ret |-> Err(ParseError_new(n - 1, "UnterminatedEntry"))]
    ELSE IF key \in KeysOf(UniqueKeys)
    THEN SetUnique(self, FieldOf(UniqueKeys, key), str, n)
    ELSE IF key \in KeysOf(RepeatedKeys)
    THEN Push(self, FieldOf(RepeatedKeys, key), str)
    ELSE IF key = "BT"
    THEN SetUnique(self, BTField(Unwrap(self.entry).reference_type), str, n)
    ELSE IF key = "ER"
    THEN parse_line_ER(self, str, n)
    ELSE [self |-> self, ret |-> Err(ParseError_new(n, "InvalidKey"))]

\* Mutant: a key with no arm is ignored.
parse_line_InProgress_IgnoreUnknown(self, key, str, n) ==
    IF key = "TY"
    THEN [self |-> self, ret |-> Err(ParseError_new(n, "UnterminatedEntry"))]
    ELSE IF key \in KeysOf(UniqueKeys)
    THEN SetUnique(self, FieldOf(UniqueKeys, key), str, n)
    ELSE IF key \in KeysOf(RepeatedKeys)
    THEN Push(self, FieldOf(RepeatedKeys, key), str)
    ELSE IF key = "BT"
    THEN SetUnique(self, BTField(Unwrap(self.entry).reference_type), str, n)
    ELSE IF key = "ER"
    THEN parse_line_ER(self, str, n)
    ELSE [self |-> self, ret |-> Ok(self.state)]

\* The ParseState::InProgress arm of parse_line: `match key`.
parse_line_InProgress(self, key, str, n) ==
    IF key = "TY"
    THEN [self |-> self, ret |-> Err(ParseError_new(n, "UnterminatedEntry"))]
    ELSE IF key \in KeysOf(UniqueKeys)
    THEN SetUnique(self, FieldOf(UniqueKeys, key), str, n)
    ELSE IF key \in KeysOf(RepeatedKeys)
    THEN Push(self, FieldOf(RepeatedKeys, key), str)
    ELSE IF key = "BT"
    THEN SetUnique(self, BTField(Unwrap(self.entry).reference_type), str, n)
    ELSE IF key = "ER"
    THEN parse_line_ER(self, str, n)
    ELSE [self |-> self, ret |-> Err(ParseError_new(n, "InvalidKey"))]

\* `match self.state` on the key and value of the line.
parse_line_match(self, key, str, n) ==
    CASE self.state = "Start"      -> parse_line_Start(self, key, str, n)
      [] self.state = "InProgress" -> parse_line_InProgress(self, key, str, n)
      [] self.state = "End"        ->
            [self |-> self, ret |-> Err(ParseError_new(n, "TagOutsideEntry"))]

parse_line_captures(self, matches, n) ==
    IF matches = None
    THEN [self |-> self, ret |-> Err(ParseError_new(n, "InvalidLine"))]
    ELSE parse_line_match(self, Unwrap(matches).g1, Unwrap(matches).g2, n)

\* PartialEntry::parse_line(&mut self, line, line_no): self as the call
\* leaves it, and the Result<ParseState, ParseError>.
parse_line(self, line, n) == parse_line_captures(self, LINE_RE(line), n)

-----------------------------------------------------------------------------
(* Display for Entry and RIS *)

\* The write_tag / write_tags calls of Entry::fmt, in order: <<tag, field>>.
WriteOrder ==
    <<
       <<"ID", "id">>,
       <<"T1", "title">>, <<"T2", "secondary_title">>, <<"T3", "tertiary_title">>,
       <<"A1", "authors">>, <<"A2", "secondary_authors">>, <<"A3", "tertiary_authors">>,
       <<"Y1", "primary_date">>, <<"Y2", "secondary_date">>,
       <<"N1", "notes">>, <<"AB", "abstract_">>,
       <<"KW", "keywords">>,
       <<"RP", "reprint">>, <<"AV", "availability">>, <<"CA", "caption">>,
       <<"CN", "call_number">>, <<"DO", "doi">>,
       <<"SP", "start_page">>, <<"EP", "end_page">>,
       <<"JF", "journal">>, <<"JA", "journal_abbrev">>,
       <<"J1", "journal_abbrev_1">>, <<"J2", "journal_abbrev_2">>,
       <<"VL", "volume">>, <<"IS", "issue">>, <<"CY", "city">>,
       <<"PB", "publisher">>, <<"SN", "serial_number">>, <<"AD", "address">>,
       <<"U1", "user_1">>, <<"U2", "user_2">>, <<"U3", "user_3">>,
       <<"U4", "user_4">>, <<"U5", "user_5">>,
       <<"U1", "custom_1">>, <<"U2", "custom_2">>, <<"U3", "custom_3">>,
       <<"U4", "custom_4">>, <<"U5", "custom_5">>, <<"U6", "custom_6">>,
       <<"U7", "custom_7">>, <<"U8", "custom_8">>,
       <<"M1", "misc_1">>, <<"M2", "misc_2">>, <<"M3", "misc_3">>
    >>

\* Mutant: an absent field is written as a line with an empty value.
write_tag_Always(tag, T, field) ==
    IF IsSome(field) THEN tag \o "  - " \o Display(T, Unwrap(field)) \o "\n"
    ELSE tag \o "  - \n"

\* write_tag(f, tag, field)
write_tag(tag, T, field) ==
    IF IsSome(field) THEN tag \o "  - " \o Display(T, Unwrap(field)) \o "\n" ELSE ""

\* write_tags(f, tag, field)
RECURSIVE write_tags_from(_, _, _)
write_tags_from(tag, field, i) ==
    IF i > Len(field) THEN ""
    ELSE tag \o "  - " \o field[i] \o "\n" \o write_tags_from(tag, field, i + 1)

write_tags(tag, field) == write_tags_from(tag, field, 1)

\* Mutant: title, authors and primary date are written under their synonym
\* tags TI, AU and PY.
RECURSIVE WriteFrom_Synonyms(_, _)
WriteFrom_Synonyms(self, i) ==
    IF i > Len(WriteOrder) THEN ""
    ELSE LET f   == WriteOrder[i][2]
             tag == CASE f = "title"        -> "TI"
                      [] f = "authors"      -> "AU"
                      [] f = "primary_date" -> "PY"
                      [] OTHER              -> WriteOrder[i][1]
         IN  (IF f \in VecFields THEN write_tags(tag, self[f])
              ELSE write_tag(tag, FieldType(f), self[f]))
             \o WriteFrom_Synonyms(self, i + 1)

RECURSIVE WriteFrom(_, _)
WriteFrom(self, i) ==
    IF i > Len(WriteOrder) THEN ""
    ELSE LET tag == WriteOrder[i][1]
             f   == WriteOrder[i][2]
         IN  (IF f \in VecFields THEN write_tags(tag, self[f])
              ELSE write_tag(tag, FieldType(f), self[f]))
             \o WriteFrom(self, i + 1)

\* Mutant: the ER line is written with writeln!, so a line break follows it.
Entry_fmt_TrailingNewline(self) ==
    "TY  - " \o ReferenceType_fmt(self.reference_type) \o "\n"
    \o WriteFrom(self, 1)
    \o "ER  - \n"

\* impl Display for Entry
Entry_fmt(self) ==
    "TY  - " \o ReferenceType_fmt(self.reference_type) \o "\n"
    \o WriteFrom(self, 1)
    \o "ER  - "

\* Mutant: two line breaks are written before each entry after the first.
RECURSIVE RIS_fmt_rest_BlankLine(_, _)
RIS_fmt_rest_BlankLine(es, i) ==
    IF i > Len(es) THEN ""
    ELSE "\n\n" \o Entry_fmt(es[i]) \o RIS_fmt_rest_BlankLine(es, i + 1)

\* for entry in self.0.iter().skip(1) { writeln!(f)?; entry.fmt(f)?; }
RECURSIVE RIS_fmt_rest(_, _)
RIS_fmt_rest(es, i) ==
    IF i > Len(es) THEN ""
    ELSE "\n" \o Entry_fmt(es[i]) \o RIS_fmt_rest(es, i + 1)

\* impl Display for RIS (self.0 is the Vec<Entry>)
RIS_fmt(self) ==
    IF self = <<>> THEN ""
    ELSE Entry_fmt(self[1]) \o RIS_fmt_rest(self, 2)

-----------------------------------------------------------------------------
(* The inputs: bounded sets of texts and of values *)

MaxLines == 5

MaxFields == 2

MaxSlots == 2

MaxEntries == 2

RECURSIVE JoinFrom(_, _)
JoinFrom(ls, i) ==
    IF i > Len(ls) THEN ""
    ELSE IF i = Len(ls) THEN ls[i]
    ELSE ls[i] \o "\n" \o JoinFrom(ls, i + 1)

Join(ls) == JoinFrom(ls, 1)

SeqsUpTo(S, n) == UNION {[1..k -> S] : k \in 0..n}

\* Record boundaries: every text of at most MaxLines of these lines.
BoundaryLines == {"TY  - JOUR", "TY  - BOOK", "ER  - ", "ER  - x", "T1  - a"}

BoundaryTexts == {Join(ls) : ls \in SeqsUpTo(BoundaryLines, MaxLines)}

\* One record of at most MaxFields field lines.
TypeLines == {"TY  - JOUR", "TY  - BOOK", "TY  - UNPB"}

FieldLines ==
    {"T1  - a", "TI  - b", "T2  - a", "JF  - a", "JO  - b", "BT  - c", "CT  - a",
     "Y1  - 1998", "PY  - 1948/07//", "DA  - 1995/12/01/x", "Y2  - 2001",
     "Y1  - 98", "AB  - a", "N2  - b", "A1  - a", "AU  - b", "ED  - a",
     "KW  - a", "U1  - a", "C1  - b", "C6  - a"}

FieldTexts ==
    {Join(<<t>> \o fs \o <<"ER  - ">>) :
        t \in TypeLines, fs \in SeqsUpTo(FieldLines, MaxFields)}

\* One record with one line of each key of the mapping.
KeyTexts ==
    {Join(<<"TY  - JOUR", k \o "  - 1998/01/02/v", "ER  - ">>) :
        k \in KeysOf(UniqueKeys) \cup KeysOf(RepeatedKeys)}

\* Lines around the line grammar: text before the tag, the two tag
\* characters, the delimiter, the value.
GrammarLines ==
    {pre \o c1 \o c2 \o sep \o v :
        pre \in {"", "x", " ", "A"},
        c1  \in {"T", "t", "1", " "},
        c2  \in {"Y", "1", "y", "-"},
        sep \in {"  - ", " - ", "  -", "   - ", "  = "},
        v   \in {"", "JOUR", " x  - y"}}

LineTexts ==
    GrammarLines
    \cup {Join(<<"TY  - JOUR", l>>) : l \in GrammarLines}
    \cup {Join(<<l, "ER  - ">>) : l \in GrammarLines}
    \cup {"\n", "\r\n", "TY  - JOUR\nER  - \n", "TY  - JOUR\r\nER  - \r\n",
          "TY  - JOUR\n\nER  - ", "TY  - JOUR\nER  - \n\nTY  - BOOK\nER  - "}

\* Date values around the date grammar, on the lines of the two date fields.
DateStrings ==
    {pre \o y \o rest :
        pre  \in {"", "x", "1"},
        y    \in {"1998", "0007", "199", "19a8"},
        rest \in {"", "/", "/07", "/7", "//", "/07/", "/07/01", "/07/1", "///",
                  "/07/01/", "/07/01/x", "///x", "//01/", "/07//x/y", "x", "/123",
                  "-07-01"}}

DateTexts ==
    {Join(<<"TY  - JOUR", k \o "  - " \o d, "ER  - ">>) :
        k \in {"Y1", "Y2"}, d \in DateStrings}
    \cup {Join(<<"TY  - JOUR", k1 \o "  - 1998", k2 \o "  - " \o d, "ER  - ">>) :
            k1 \in {"Y1", "PY", "DA", "Y2"}, k2 \in {"Y1", "PY", "DA", "Y2"},
            d \in {"98", "x", "", "1998", "2001/01/"}}

\* One record of each reference type code, and of strings that are no code.
CodeStrings ==
    {ReferenceTypeCodes[i][1] : i \in 1..Len(ReferenceTypeCodes)}
    \cup {"XYZ", "", "jour", "JOUR ", " JOUR", "JOURNAL", "Other"}

CodeTexts ==
    {Join(<<"TY  - " \o c, "ER  - ">>) : c \in CodeStrings}
    \cup {Join(<<"TY  - " \o c, "BT  - a", "T2  - b", "ER  - ">>) : c \in CodeStrings}

\* Two records with one line break, or with a blank line, between them.
Records == {"TY  - JOUR\nER  - ", "TY  - BOOK\nT1  - a\nER  - "}

SeparatedTexts ==
    {r1 \o sep \o r2 : r1 \in Records, r2 \in Records, sep \in {"\n", "\n\n"}}

\* A line outside the line grammar after 0 to 4 accepted lines, with
\* lines after it that would be rejected as well.
AcceptedLines == <<"TY  - JOUR", "T1  - a", "ER  - ", "TY  - BOOK">>

FailFastTexts ==
    {Join(SubSeq(AcceptedLines, 1, k) \o <<bad>> \o post) :
        k \in 0..Len(AcceptedLines),
        bad \in {"", "junk", "T1 - a"},
        post \in {<<>>, <<"">>, <<"ER  - x">>, <<"TY  - JOUR", "TY  - JOUR">>}}

\* One record with one line of each tag the line grammar allows.
TagTexts ==
    {Join(<<"TY  - JOUR", c1 \o c2 \o "  - a", "ER  - ">>) :
        c1 \in Upper, c2 \in Upper \cup Digit}

\* One record of MaxFields + 1 lines of the repeated fields, with synonym
\* tags and equal values among them.
RepeatedLines ==
    {"A1  - a", "AU  - b", "AU  - a", "A2  - a", "ED  - b", "A3  - a", "KW  - a"}

RepeatedTexts ==
    {Join(<<"TY  - JOUR">> \o fs \o <<"ER  - ">>) :
        fs \in [1..(MaxFields + 1) -> RepeatedLines]}

\* Two equal records with lines of one repeated field under both its tags.
TwiceText ==
    Join(<<"TY  - BOOK", "A1  - a", "AU  - b", "AU  - a", "ER  - ",
           "TY  - BOOK", "A1  - a", "AU  - b", "AU  - a", "ER  - ">>)

\* The records of the repository's tests.
Shannon ==
    Join(<<"TY  - JOUR", "AU  - Shannon, Claude E.", "PY  - 1948/07//",
           "TI  - A Mathematical Theory of Communication",
           "T2  - Bell System Technical Journal",
           "SP  - 379", "EP  - 423", "VL  - 27", "ER  - ">>)

Turing ==
    Join(<<"TY  - JOUR",
           "T1  - On computable numbers, with an application to the Entscheidungsproblem",
           "A1  - Turing, Alan Mathison",
           "JO  - Proc. of London Mathematical Society",
           "VL  - 47", "IS  - 1", "SP  - 230", "EP  - 265", "Y1  - 1937", "ER  - ">>)

TestTexts == {Shannon, Turing, Shannon \o "\n" \o Turing, TwiceText}

Texts == BoundaryTexts \cup FieldTexts \cup KeyTexts \cup LineTexts
         \cup DateTexts \cup CodeTexts \cup SeparatedTexts \cup FailFastTexts \cup TagTexts
         \cup RepeatedTexts
         \cup TestTexts

\* Values handed to to_string.
SlotValue(f) ==
    IF f \in VecFields THEN <<"a", "b">>
    ELSE IF f \in DateFields THEN Some(PublicationDate_new(1998, Some(7), Some(1), Some("x")))
    ELSE Some("a")

RECURSIVE SubsetsUpTo(_, _)
SubsetsUpTo(S, k) ==
    IF k = 0 THEN {{}}
    ELSE LET P == SubsetsUpTo(S, k - 1) IN P \cup {F \cup {x} : F \in P, x \in S}

\* Entries with at most MaxSlots slots populated, any slots.
SlotEntries ==
    {[f \in EntryFields |->
        IF f \in fs THEN SlotValue(f) ELSE Entry_new(Variant("Journal"))[f]] :
     fs \in SubsetsUpTo(OptionFields \cup VecFields, MaxSlots)}

Dates ==
    {PublicationDate_new(y, m, d, o) :
        y \in {0, 7, 1998, 9999},
        m \in {None, Some(0), Some(7), Some(12), Some(99)},
        d \in {None, Some(0), Some(1), Some(31), Some(99)},
        o \in {None, Some("x"), Some("")}}

DateEntries ==
    {[Entry_new(Variant("Journal")) EXCEPT ![f] = Some(d)] :
        f \in DateFields, d \in Dates}

ReferenceTypes ==
    {Variant(ReferenceTypeNames[i][1]) : i \in 1..Len(ReferenceTypeNames)}
    \cup {Other("XYZ"), Other("JOUR"), Other("")}

TypeEntries == {Entry_new(t) : t \in ReferenceTypes}

Entries == SlotEntries \cup DateEntries \cup TypeEntries

DocEntries ==
    {Entry_new(Variant("Journal")),
     [Entry_new(Variant("WholeBook")) EXCEPT !.title = Some("a"),
                                            !.authors = <<"b", "a">>]}

Docs == SeqsUpTo(DocEntries, MaxEntries)

-----------------------------------------------------------------------------
(* The state machine *)

Types == {"RIS", "Entry"}

\* The locals of from_str, not yet initialised.
NoLocals ==
    /\ lines = <<>>
    /\ line_no = 0
    /\ current_entry = PartialEntry_new
    /\ entries = <<>>
    /\ ret = None
    /\ round = 0

\* A call of from_str on a text.
InitFromStr ==
    /\ ty \in Types
    /\ pc = "from_str"
    /\ s \in Texts
    /\ value = None
    /\ NoLocals

\* A call of to_string on a value; its text is given to from_str afterwards.
InitToString ==
    /\ ty \in Types
    /\ pc = "to_string"
    /\ s = ""
    /\ value \in {Some(v) : v \in IF ty = "RIS" THEN Docs ELSE Entries}
    /\ NoLocals

Init == InitFromStr \/ InitToString

\* The locals of from_str before its loop.
from_str_begin ==
    /\ pc = "from_str"
    /\ entries' = <<>>
    /\ line_no' = 0
    /\ current_entry' = PartialEntry_new
    /\ lines' = StrLines(s)
    /\ ret' = None
    /\ pc' = "loop"
    /\ UNCHANGED <<ty, s, value, round>>

\* Mutant: a line that parse_line rejects is skipped and the loop goes on.
RIS_from_str_body_Skip(r) ==
    IF ~r.ret.ok
    THEN UNCHANGED <<pc, ret, current_entry, entries>>
    ELSE IF r.ret.val = "End"
    THEN /\ entries' = Append(entries, Unwrap(r.self.entry))
         /\ current_entry' = PartialEntry_new
         /\ UNCHANGED <<pc, ret>>
    ELSE /\ current_entry' = r.self
         /\ UNCHANGED <<pc, ret, entries>>

\* Mutant: after ER the entry is pushed but the parser is not replaced by
\* a new one.
RIS_from_str_body_NoReset(r) ==
    IF ~r.ret.ok
    THEN /\ ret' = Some(Err(r.ret.err))
         /\ pc' = "returned"
         /\ current_entry' = r.self
         /\ entries' = entries
    ELSE IF r.ret.val = "End"
    THEN /\ entries' = Append(entries, Unwrap(r.self.entry))
         /\ current_entry' = r.self
         /\ UNCHANGED <<pc, ret>>
    ELSE /\ current_entry' = r.self
         /\ UNCHANGED <<pc, ret, entries>>

\* The body of the loop of RIS::from_str, given what parse_line returned.
RIS_from_str_body(r) ==
    IF ~r.ret.ok
    THEN /\ ret' = Some(Err(r.ret.err))
         /\ pc' = "returned"
         /\ current_entry' = r.self
         /\ entries' = entries
    ELSE IF r.ret.val = "End"
    THEN /\ entries' = Append(entries, Unwrap(r.self.entry))
         /\ current_entry' = PartialEntry_new
         /\ UNCHANGED <<pc, ret>>
    ELSE /\ current_entry' = r.self
         /\ UNCHANGED <<pc, ret, entries>>

\* Mutant: the iterator is not advanced, the same line is read again.
RIS_from_str_line_Stuck ==
    /\ pc = "loop" /\ ty = "RIS" /\ lines # <<>>
    /\ line_no' = line_no + 1
    /\ lines' = lines
    /\ RIS_from_str_body(parse_line(current_entry, Head(lines), line_no + 1))
    /\ UNCHANGED <<ty, s, value, round>>

\* RIS::from_str, one pass of `for line in s.lines()`.
RIS_from_str_line ==
    /\ pc = "loop" /\ ty = "RIS" /\ lines # <<>>
    /\ line_no' = line_no + 1
    /\ lines' = Tail(lines)
    /\ RIS_from_str_body(parse_line(current_entry, Head(lines), line_no + 1))
    /\ UNCHANGED <<ty, s, value, round>>

\* Mutant: the check for an open entry after the loop is missing.
RIS_from_str_return_NoCheck ==
    /\ pc = "loop" /\ ty = "RIS" /\ lines = <<>>
    /\ ret' = Some(Ok(entries))
    /\ pc' = "returned"
    /\ UNCHANGED <<ty, s, lines, line_no, current_entry, entries, value, round>>

\* RIS::from_str after the loop.
RIS_from_str_return ==
    /\ pc = "loop" /\ ty = "RIS" /\ lines = <<>>
    /\ ret' = Some(IF current_entry.state = "InProgress"
                   THEN Err(ParseError_new(line_no, "UnterminatedEntry"))
                   ELSE Ok(entries))
    /\ pc' = "returned"
    /\ UNCHANGED <<ty, s, lines, line_no, current_entry, entries, value, round>>

\* The body of the loop of Entry::from_str, given what parse_line returned.
Entry_from_str_body(r) ==
    /\ current_entry' = r.self
    /\ IF ~r.ret.ok
       THEN /\ ret' = Some(Err(r.ret.err))
            /\ pc' = "returned"
       ELSE UNCHANGED <<pc, ret>>

\* Entry::from_str, one pass of `for line in s.lines()`.
Entry_from_str_line ==
    /\ pc = "loop" /\ ty = "Entry" /\ lines # <<>>
    /\ line_no' = line_no + 1
    /\ lines' = Tail(lines)
    /\ Entry_from_str_body(parse_line(current_entry, Head(lines), line_no + 1))
    /\ UNCHANGED <<ty, s, entries, value, round>>

\* Entry::from_str after the loop.
Entry_from_str_return ==
    /\ pc = "loop" /\ ty = "Entry" /\ lines = <<>>
    /\ ret' = Some(IF current_entry.state = "End"
                   THEN Ok(Unwrap(current_entry.entry))
                   ELSE Err(ParseError_new(line_no, "UnterminatedEntry")))
    /\ pc' = "returned"
    /\ UNCHANGED <<ty, s, lines, line_no, current_entry, entries, value, round>>

\* to_string (Display::fmt) of the value; the text goes to from_str next.
RIS_to_string ==
    /\ pc = "to_string" /\ ty = "RIS"
    /\ s' = RIS_fmt(Unwrap(value))
    /\ pc' = "from_str"
    /\ round' = round + 1
    /\ UNCHANGED <<ty, lines, line_no, current_entry, entries, value, ret>>

Entry_to_string ==
    /\ pc = "to_string" /\ ty = "Entry"
    /\ s' = Entry_fmt(Unwrap(value))
    /\ pc' = "from_str"
    /\ round' = round + 1
    /\ UNCHANGED <<ty, lines, line_no, current_entry, entries, value, ret>>

\* The value from_str returned for the input text is serialized in turn.
Reserialize ==
    /\ pc = "returned" /\ round = 0
    /\ Unwrap(ret).ok
    /\ value' = Some(Unwrap(ret).val)
    /\ pc' = "to_string"
    /\ UNCHANGED <<ty, s, lines, line_no, current_entry, entries, ret, round>>

Next ==
    \/ from_str_begin
    \/ RIS_from_str_line
    \/ RIS_from_str_return
    \/ Entry_from_str_line
    \/ Entry_from_str_return
    \/ RIS_to_string
    \/ Entry_to_string
    \/ Reserialize

Spec == Init /\ [][Next]_vars

\* The calls whose termination is checked: from_str on the texts of at
\* most MaxLines - 2 lines that open, fill and close records, on the texts
\* of two records and on the texts with a line outside the grammar, and
\* to_string on the documents and their entries.
LiveTexts ==
    {Join(ls) : ls \in SeqsUpTo({"TY  - JOUR", "ER  - ", "T1  - a"}, MaxLines - 2)}
    \cup SeparatedTexts \cup FailFastTexts \cup {"\n", "TY  - JOUR\r\nER  - \r\n"}

LiveInit ==
    \/ /\ ty \in Types
       /\ pc = "from_str"
       /\ s \in LiveTexts
       /\ value = None
       /\ NoLocals
    \/ /\ ty \in Types
       /\ pc = "to_string"
       /\ s = ""
       /\ value \in {Some(v) : v \in IF ty = "RIS" THEN Docs ELSE DocEntries}
       /\ NoLocals

\* A call of from_str runs on: each of its steps is taken when it can be.
\* The callers' steps (to_string, Reserialize) are under no such condition.
LiveSpec ==
    /\ LiveInit /\ [][Next]_vars
    /\ WF_vars(from_str_begin)
    /\ WF_vars(RIS_from_str_line) /\ WF_vars(RIS_from_str_return)
    /\ WF_vars(Entry_from_str_line) /\ WF_vars(Entry_from_str_return)

-----------------------------------------------------------------------------
(* The format as the specification words it, stated without the parser *)

\* A line of the wire format: tag, two spaces, dash, space, value.
WellFormed(line) ==
    /\ Len(line) >= 6
    /\ Char(line, 1) \in Upper
    /\ Char(line, 2) \in Upper \cup Digit
    /\ SubSeq(line, 3, 6) = "  - "

TagOf(line) == SubSeq(line, 1, 2)

ValueOf(line) == SubSeq(line, 7, Len(line))

\* The loop of from_str is about to process the line Head(lines), whose
\* number is line_no + 1.
AtLine == pc = "loop" /\ lines # <<>>

AtWellFormedLine == AtLine /\ WellFormed(Head(lines))

\* from_str returns the error `kind` at line n in this step.
Fails(n, kind) ==
    pc' = "returned" /\ ret' = Some(Err([line_no |-> n, kind |-> kind]))

\* from_str has returned the error `kind`.
Failed(kind) ==
    pc = "returned" /\ ~Unwrap(ret).ok /\ Unwrap(ret).err.kind = kind

\* The lines of the input text, and the line the loop processed last.
TextLines == StrLines(s)

LastLine == TextLines[line_no]

\* An entry with nothing but its reference type.
Blank(e) ==
    /\ \A f \in OptionFields : e[f] = None
    /\ \A f \in VecFields : e[f] = <<>>

-----------------------------------------------------------------------------
(* C2 *)

-----------------------------------------------------------------------------
(* C3 *)

\* C3: with an entry open (state InProgress) a TY line fails with
\* UnterminatedEntry, and the line reported is the nested TY line.
C3_NestedTY ==
    [][(/\ AtWellFormedLine
        /\ current_entry.state = "InProgress"
        /\ TagOf(Head(lines)) = "TY")
       => Fails(line_no + 1, "UnterminatedEntry")]_vars

\* The parse failed on a TY at line 3, two lines after the TY that opened
\* the entry.
C3_Witness ==
    /\ Failed("UnterminatedEntry")
    /\ current_entry.state = "InProgress"
    /\ line_no = 3 /\ Unwrap(ret).err.line_no = 3
    /\ TagOf(TextLines[1]) = "TY" /\ TagOf(TextLines[2]) = "T1"
    /\ TagOf(LastLine) = "TY"

-----------------------------------------------------------------------------
(* C4 *)

\* C4: in state InProgress an ER line with an empty value seals the open
\* entry, which parse_document appends to its list as the last element,
\* with no entry open (state Start) before the next line is read; an ER line
\* with a value fails with InvalidLine at that line and seals nothing.
C4_EndOfRecord ==
    [][(/\ AtWellFormedLine /\ ty = "RIS"
        /\ current_entry.state = "InProgress"
        /\ TagOf(Head(lines)) = "ER")
       => IF ValueOf(Head(lines)) = ""
          THEN /\ pc' = "loop"
               /\ entries' = Append(entries, Unwrap(current_entry.entry))
               /\ current_entry'.state = "Start"
               /\ current_entry'.entry = None
          ELSE /\ Fails(line_no + 1, "InvalidLine")
               /\ entries' = entries]_vars

\* A second record with a field has just been sealed.
C4_Witness ==
    /\ pc = "loop" /\ ty = "RIS"
    /\ Len(entries) = 2 /\ IsSome(entries[2].title)
    /\ current_entry.state = "Start"
    /\ LastLine = "ER  - "

-----------------------------------------------------------------------------
(* C5 *)

\* C5: when parse_document reaches the end of the text with an entry open it
\* fails with UnterminatedEntry at the number of the last line of the text;
\* with no entry open it returns the document built so far, the empty
\* document for a text of no lines.
C5_EndOfInput ==
    [][(pc = "loop" /\ ty = "RIS" /\ lines = <<>>)
       => /\ pc' = "returned"
          /\ IF current_entry.state = "InProgress"
             THEN ret' = Some(Err([line_no |-> Len(TextLines),
                                   kind |-> "UnterminatedEntry"]))
             ELSE ret' = Some(Ok(entries))
          /\ TextLines = <<>> => ret' = Some(Ok(<<>>))]_vars

\* The text ended after a sealed record and two lines of an open one.
C5_Witness ==
    /\ Failed("UnterminatedEntry") /\ ty = "RIS"
    /\ lines = <<>> /\ Len(entries) = 1
    /\ Unwrap(ret).err.line_no = 4 /\ Len(TextLines) = 4
    /\ TagOf(LastLine) = "T1"

-----------------------------------------------------------------------------
(* C6 *)

\* The unique slots and the tags that write each, as the specification and
\* the documentation of Entry list them; BT is added to the title slot it
\* resolves to for the reference type.
SlotTags ==
    <<
       <<"id", {"ID"}>>, <<"title", {"T1", "TI"}>>,
       <<"secondary_title", {"T2"}>>, <<"tertiary_title", {"T3"}>>,
       <<"primary_date", {"Y1", "PY", "DA"}>>, <<"secondary_date", {"Y2"}>>,
       <<"notes", {"N1"}>>, <<"abstract_", {"AB", "N2"}>>,
       <<"reprint", {"RP"}>>, <<"availability", {"AV"}>>,
       <<"caption", {"CA"}>>, <<"call_number", {"CN"}>>, <<"doi", {"DO"}>>,
       <<"start_page", {"SP"}>>, <<"end_page", {"EP"}>>,
       <<"journal", {"JF", "JO"}>>, <<"journal_abbrev", {"JA"}>>,
       <<"journal_abbrev_1", {"J1"}>>, <<"journal_abbrev_2", {"J2"}>>,
       <<"volume", {"VL"}>>, <<"issue", {"IS"}>>, <<"city", {"CY"}>>,
       <<"publisher", {"PB"}>>, <<"serial_number", {"SN"}>>, <<"address", {"AD"}>>,
       <<"user_1", {"U1"}>>, <<"user_2", {"U2"}>>, <<"user_3", {"U3"}>>,
       <<"user_4", {"U4"}>>, <<"user_5", {"U5"}>>,
       <<"custom_1", {"C1"}>>, <<"custom_2", {"C2"}>>, <<"custom_3", {"C3"}>>,
       <<"custom_4", {"C4"}>>, <<"custom_5", {"C5"}>>, <<"custom_6", {"C6"}>>,
       <<"custom_7", {"C7"}>>, <<"custom_8", {"C8"}>>,
       <<"misc_1", {"M1"}>>, <<"misc_2", {"M2"}>>, <<"misc_3", {"M3"}>>
    >>

BookLike(reference_type) ==
    reference_type \in {Variant("WholeBook"), Variant("UnpublishedWork")}

\* The slots a line with this tag targets in an entry of this type (one
\* slot for a unique tag, none for any other tag).
SlotsOf(tag, reference_type) ==
    {SlotTags[i][1] : i \in {j \in 1..Len(SlotTags) : tag \in SlotTags[j][2]}}
    \cup (IF tag = "BT"
          THEN {IF BookLike(reference_type) THEN "title" ELSE "secondary_title"}
          ELSE {})

\* The slots the line Head(lines) targets in the open entry.
Targets == SlotsOf(TagOf(Head(lines)), Unwrap(current_entry.entry).reference_type)

AtFieldLine ==
    AtWellFormedLine /\ current_entry.state = "InProgress" /\ Targets # {}

-----------------------------------------------------------------------------
(* C7 *)

\* C7: T2, JF and JO write one slot, secondary_title: in an open entry a
\* line with one of them stores its value in secondary_title, or fails with
\* DuplicateField when secondary_title is already written.
C7_SecondaryTitleSynonyms ==
    [][(/\ AtWellFormedLine
        /\ current_entry.state = "InProgress"
        /\ TagOf(Head(lines)) \in {"T2", "JF", "JO"})
       => IF IsSome(Unwrap(current_entry.entry).secondary_title)
          THEN Fails(line_no + 1, "DuplicateField")
          ELSE /\ pc' = "loop"
               /\ Unwrap(current_entry'.entry).secondary_title
                     = Some(ValueOf(Head(lines)))]_vars

-----------------------------------------------------------------------------
(* C8 *)

\* C8: a line is accepted exactly when the whole line is a tag, two spaces,
\* a dash, a space and a value; the tag is then its first two characters
\* and the value all that follows the sixth; every other line fails with
\* InvalidLine at its number.
C8_LineGrammar ==
    [][AtLine =>
         IF WellFormed(Head(lines))
         THEN LINE_RE(Head(lines))
                = Some([g1 |-> TagOf(Head(lines)), g2 |-> ValueOf(Head(lines))])
         ELSE Fails(line_no + 1, "InvalidLine")]_vars

-----------------------------------------------------------------------------
(* C9 *)

\* The date grammar YYYY(/MM?(/DD?(/OTHER?)?)?)? on the whole string, from
\* position p on: the part after the day, after the month, after the year.
StrictOther(str, p) == p > Len(str) \/ SlashAt(str, p)

StrictDay(str, p) ==
    \/ p > Len(str)
    \/ /\ SlashAt(str, p)
       /\ \/ StrictOther(str, p + 1)
          \/ TwoDigitsAt(str, p + 1) /\ StrictOther(str, p + 3)

StrictMonth(str, p) ==
    \/ p > Len(str)
    \/ /\ SlashAt(str, p)
       /\ \/ StrictDay(str, p + 1)
          \/ TwoDigitsAt(str, p + 1) /\ StrictDay(str, p + 3)

StrictDate(str) ==
    /\ Len(str) >= 4
    /\ \A i \in 1..4 : Char(str, i) \in Digit
    /\ StrictMonth(str, 5)

\* C9: on a Y1/PY/DA/Y2 line of an open entry whose date slot is not
\* written, the value is accepted exactly when the whole of it matches the
\* date grammar, and any other value fails with InvalidDate at that line.
C9_StrictDates ==
    [][(/\ AtFieldLine
        /\ TagOf(Head(lines)) \in {"Y1", "PY", "DA", "Y2"}
        /\ \A f \in Targets : Unwrap(current_entry.entry)[f] = None)
       => IF StrictDate(ValueOf(Head(lines)))
          THEN /\ pc' = "loop"
               /\ \A f \in Targets : IsSome(Unwrap(current_entry'.entry)[f])
          ELSE Fails(line_no + 1, "InvalidDate")]_vars

-----------------------------------------------------------------------------
(* C10 *)

\* The text of a date: four digits of the year, "/", two digits of the
\* month if there is one, "/", two digits of the day if there is one, "/",
\* and other_info if there is one.
DateShape(str, d) ==
    LET b == IF IsSome(d.month) THEN 8 ELSE 6
        c == IF IsSome(d.day) THEN b + 3 ELSE b + 1
    IN  /\ Len(str) >= c
        /\ ParseI32(SubSeq(str, 1, 4)) = Some(d.year)
        /\ Char(str, 5) = "/"
        /\ IsSome(d.month) => ParseI32(SubSeq(str, 6, 7)) = d.month
        /\ Char(str, b) = "/"
        /\ IsSome(d.day) => ParseI32(SubSeq(str, b + 1, b + 2)) = d.day
        /\ Char(str, c) = "/"
        /\ SubSeq(str, c + 1, Len(str))
             = (IF IsSome(d.other_info) THEN Unwrap(d.other_info) ELSE "")

DateTag(f) == IF f = "primary_date" THEN "Y1" ELSE "Y2"

Year1998 == [year |-> 1998, month |-> None, day |-> None, other_info |-> None]

\* The text to_string made of an entry is about to be parsed.
Serialized == pc = "from_str" /\ round = 1 /\ ty = "Entry"

\* C10: the text of an entry has, for each date it holds, a line whose value
\* is the year in 4 digits, the month and the day in 2 digits where
\* present, three slashes in all, and other_info; "1998" parses to the year
\* 1998 alone, and that date is written "1998///".
C10_DateText ==
    /\ Serialized =>
          \A f \in DateFields :
             IsSome(Unwrap(value)[f]) =>
                \E j \in 1..Len(TextLines) :
                   /\ WellFormed(TextLines[j])
                   /\ TagOf(TextLines[j]) = DateTag(f)
                   /\ DateShape(ValueOf(TextLines[j]), Unwrap(Unwrap(value)[f]))
    /\ (pc = "loop" /\ round = 0 /\ line_no >= 1 /\ LastLine = "Y1  - 1998"
          /\ current_entry.state = "InProgress")
          => Unwrap(current_entry.entry).primary_date = Some(Year1998)
    /\ (Serialized /\ Unwrap(value).primary_date = Some(Year1998))
          => \E j \in 1..Len(TextLines) : TextLines[j] = "Y1  - 1998///"

\* The entry parsed from a record with the line "Y1  - 1998" has been
\* serialized, with the line "Y1  - 1998///".
C10_Witness ==
    /\ Serialized
    /\ Unwrap(value).primary_date = Some(Year1998)
    /\ ret = Some(Ok(Unwrap(value)))
    /\ \E j \in 1..Len(TextLines) : TextLines[j] = "Y1  - 1998///"

-----------------------------------------------------------------------------
(* C1 *)

\* Each date of the entry has its month, day and other_info.
FullDates(e) ==
    \A f \in DateFields :
       IsSome(e[f]) =>
          /\ IsSome(Unwrap(e[f]).month)
          /\ IsSome(Unwrap(e[f]).day)
          /\ IsSome(Unwrap(e[f]).other_info)

\* C1: for an entry whose dates are full, parse_entry of the text of
\* serialize_entry succeeds and returns the entry.
C1_RoundTrip ==
    (pc = "returned" /\ ty = "Entry" /\ round = 1 /\ FullDates(Unwrap(value)))
       => ret = Some(Ok(Unwrap(value)))

-----------------------------------------------------------------------------
(* C11 *)

\* The codes of the table of reference types.
KnownCodes == {ReferenceTypeCodes[i][1] : i \in 1..Len(ReferenceTypeCodes)}

\* The value parse_type gives for each known code.
CodeImages == [c \in KnownCodes |-> ReferenceType_from_str(c)]

\* The line that opens a text: what precedes its first line break.
RECURSIVE LineEnd(_, _)
LineEnd(str, i) ==
    IF i > Len(str) \/ Char(str, i) = "\n" THEN i - 1 ELSE LineEnd(str, i + 1)

FirstLineOf(str) ==
    LET e == LineEnd(str, 1)
    IN  IF e >= 1 /\ e < Len(str) /\ Char(str, e) = "\r"
        THEN SubSeq(str, 1, e - 1)
        ELSE SubSeq(str, 1, e)

FirstLine == FirstLineOf(s)

\* C11: a well-formed TY line read with no entry open never fails; for a
\* known code the type stored is a named category that no other known code
\* yields, for any other string X it is Other(X); and when the parsed value
\* is serialized, the TY line written carries the code that was read.
C11_TypeFidelity ==
    /\ [][(/\ AtWellFormedLine
           /\ current_entry.state = "Start"
           /\ TagOf(Head(lines)) = "TY")
          => /\ pc' = "loop"
             /\ IsSome(current_entry'.entry)
             /\ LET c == ValueOf(Head(lines))
                    v == Unwrap(current_entry'.entry).reference_type
                IN  IF c \in KnownCodes
                    THEN /\ v[1] # "Other"
                         /\ \A c2 \in KnownCodes \ {c} : CodeImages[c2] # v
                    ELSE v = Other(c)]_vars
    /\ [][(/\ pc = "to_string" /\ IsSome(ret)
           /\ WellFormed(FirstLine) /\ TagOf(FirstLine) = "TY")
          => FirstLine' = FirstLine]_vars

\* The record "TY  - XYZ" has been parsed to Other("XYZ") and written back
\* with the line "TY  - XYZ".
C11_Witness ==
    /\ pc = "from_str" /\ round = 1 /\ ty = "Entry"
    /\ IsSome(ret) /\ Unwrap(ret).ok
    /\ Unwrap(value).reference_type = Other("XYZ")
    /\ FirstLine = "TY  - XYZ"

-----------------------------------------------------------------------------
(* C12 *)

\* The text to_string made of a document of two or more entries.
SerializedDoc ==
    pc = "from_str" /\ round = 1 /\ ty = "RIS" /\ Len(Unwrap(value)) >= 2

\* The numbers of the ER lines that are not the last line of the text.
InnerERs == {j \in 1..(Len(TextLines) - 1) : TextLines[j] = "ER  - "}

IsTYLine(line) == WellFormed(line) /\ TagOf(line) = "TY"

\* C12 as stated: in the text of a document of two or more entries, each
\* ER line but the last is followed by exactly one empty line and then the
\* TY line of the next entry.
C12_BlankLineBetween ==
    SerializedDoc =>
       /\ Cardinality(InnerERs) = Len(Unwrap(value)) - 1
       /\ \A j \in InnerERs :
             /\ j + 2 <= Len(TextLines)
             /\ TextLines[j + 1] = ""
             /\ IsTYLine(TextLines[j + 2])

\* C12 as amended: in the text of a document of two or more entries, each
\* ER line but the last is followed at once by the TY line of the next
\* entry: one line break and no empty line lies between two entries.
C12_LineBreakBetween ==
    SerializedDoc =>
       /\ Cardinality(InnerERs) = Len(Unwrap(value)) - 1
       /\ \A j \in InnerERs : IsTYLine(TextLines[j + 1])
       /\ \A j \in 1..Len(TextLines) : TextLines[j] # ""

\* A document of two entries has been serialized.
C12_Witness ==
    /\ SerializedDoc
    /\ Len(Unwrap(value)) = 2
    /\ \E j \in InnerERs : IsTYLine(TextLines[j + 1])

-----------------------------------------------------------------------------
(* C13 *)

\* to_string has just returned the text s.
Written == pc = "from_str" /\ round = 1

StartsWith(str, prefix) ==
    Len(str) >= Len(prefix) /\ SubSeq(str, 1, Len(prefix)) = prefix

EndsWith(str, suffix) ==
    /\ Len(str) >= Len(suffix)
    /\ SubSeq(str, Len(str) - Len(suffix) + 1, Len(str)) = suffix

\* C13: the text of the empty document is the empty string; the text of
\* any other document, and the text of an entry, begins with "TY  - " and
\* ends with the characters "ER  - ", with no line break after them.
C13_TextEnds ==
    Written =>
       IF ty = "RIS" /\ Unwrap(value) = <<>>
       THEN s = ""
       ELSE StartsWith(s, "TY  - ") /\ EndsWith(s, "ER  - ")

\* A document of one entry has been serialized, and its text ends with
\* the ER line.
C13_Witness ==
    /\ Written /\ ty = "RIS"
    /\ Len(Unwrap(value)) = 1
    /\ EndsWith(s, "\nER  - ")

-----------------------------------------------------------------------------
(* C14 *)

\* The entry of each record of Records.
EntryOf(r) ==
    IF r = "TY  - JOUR\nER  - " THEN Entry_new(Variant("Journal"))
    ELSE [Entry_new(Variant("WholeBook")) EXCEPT !.title = Some("a")]

\* parse_document has returned for the text s.
Parsed == pc = "returned" /\ round = 0 /\ ty = "RIS"

\* C14 as stated: the text of two records with one blank line between
\* them is accepted, and the two records are returned as consecutive
\* entries.
C14_BlankLineAccepted ==
    \A r1 \in Records, r2 \in Records :
       (Parsed /\ s = r1 \o "\n\n" \o r2)
          => ret = Some(Ok(<<EntryOf(r1), EntryOf(r2)>>))

\* C14 as amended: the text of two records with one line break between
\* them (the TY line next after the ER line) is accepted, and the two
\* records are returned as consecutive entries; with a blank line between
\* them the text is rejected with InvalidLine at the blank line.
C14_LineBreakAccepted ==
    \A r1 \in Records, r2 \in Records :
       /\ (Parsed /\ s = r1 \o "\n" \o r2)
             => ret = Some(Ok(<<EntryOf(r1), EntryOf(r2)>>))
       /\ (Parsed /\ s = r1 \o "\n\n" \o r2)
             => ret = Some(Err([line_no |-> Len(StrLines(r1)) + 1,
                                kind |-> "InvalidLine"]))

\* Two records with one line break between them have been parsed to two
\* entries.
C14_Witness ==
    /\ Parsed
    /\ s = "TY  - BOOK\nT1  - a\nER  - \nTY  - JOUR\nER  - "
    /\ Unwrap(ret).ok /\ Len(Unwrap(ret).val) = 2

-----------------------------------------------------------------------------
(* C15 *)

\* The line has no tag delimiter anywhere, so it is outside the grammar.
Ungrammatical(line) ==
    \A i \in 1..(Len(line) - 3) : SubSeq(line, i, i + 3) # "  - "

\* parse_document rejects a line in this step.
RejectsLine == pc = "loop" /\ ty = "RIS" /\ pc' = "returned" /\ lines # <<>>

\* C15: while parse_document reads lines no error has been raised; the
\* step that rejects a line returns an error and nothing else, carrying
\* the number of that line, and leaves the lines after it unread; a line
\* outside the grammar is rejected with InvalidLine whatever the lines
\* after it are; and once an error is returned nothing changes any more.
C15_FailFast ==
    /\ [][(pc' = "loop" /\ ty = "RIS") => ret' = None]_vars
    /\ [][RejectsLine
          => /\ IsSome(ret')
             /\ DOMAIN Unwrap(ret') = {"ok", "err"}
             /\ ~Unwrap(ret').ok
             /\ Unwrap(ret').err.line_no = line_no + 1
             /\ lines' = Tail(lines)
             /\ Len(lines') = Len(TextLines) - (line_no + 1)]_vars
    /\ [][(AtLine /\ ty = "RIS" /\ Ungrammatical(Head(lines)))
          => Fails(line_no + 1, "InvalidLine")]_vars
    /\ [][(pc = "returned" /\ ty = "RIS" /\ ~Unwrap(ret).ok)
          => UNCHANGED vars]_vars

\* Line 5 is outside the grammar and is rejected with InvalidLine at line
\* 5, after an entry was sealed and with a line after it unread that would
\* be rejected too.
C15_Witness ==
    /\ pc = "returned" /\ ty = "RIS"
    /\ ret = Some(Err([line_no |-> 5, kind |-> "InvalidLine"]))
    /\ entries # <<>>
    /\ lines = <<"ER  - x">>

-----------------------------------------------------------------------------
(* C16 *)

\* C16: every error parse_document or parse_entry returns carries the
\* number of a line of the text: at least 1 and at most the number of
\* lines.
C16_LineNumbers ==
    (pc = "returned" /\ ~Unwrap(ret).ok)
       => /\ Unwrap(ret).err.line_no >= 1
          /\ Unwrap(ret).err.line_no <= Len(TextLines)

-----------------------------------------------------------------------------
(* C17 *)

\* The tags of the field mapping: those of the unique slots, those of the
\* repeated slots, and BT.
MappedTags ==
    UNION {SlotTags[i][2] : i \in 1..Len(SlotTags)}
    \cup {"A1", "AU", "A2", "ED", "A3", "KW", "BT"}

-----------------------------------------------------------------------------
(* C18 *)

\* The repeated slots and the tags that append to each.
RepeatedTags ==
    <<
       <<"authors", {"A1", "AU"}>>, <<"secondary_authors", {"A2", "ED"}>>,
       <<"tertiary_authors", {"A3"}>>, <<"keywords", {"KW"}>>
    >>

\* The numbers of the TY lines and of the ER lines of the text.
TYLines == {j \in 1..Len(TextLines) : IsTYLine(TextLines[j])}

ERLines == {j \in 1..Len(TextLines) : TextLines[j] = "ER  - "}

\* The k-th number of the set S, in increasing order.
Nth(S, k) == CHOOSE j \in S : Cardinality({i \in S : i < j}) = k - 1

AllWellFormed == \A j \in 1..Len(TextLines) : WellFormed(TextLines[j])

\* C18: each line parse_document reads leaves its list as it was or
\* appends the entry that line closed; the document returned for a text of
\* well-formed lines has one entry per ER line, the k-th entry being that
\* of the k-th TY line; and a line of a repeated field appends its value
\* to the end of the list of that field and leaves the other lists as
\* they were, whatever the list already holds.
C18_OrderPreserved ==
    /\ [][(AtLine /\ ty = "RIS")
          => \/ entries' = entries
             \/ /\ current_entry.state = "InProgress"
                /\ entries' = Append(entries, Unwrap(current_entry.entry))]_vars
    /\ [][(pc = "loop" /\ ty = "RIS" /\ pc' = "returned" /\ Unwrap(ret').ok)
          => Unwrap(ret').val = entries]_vars
    /\ []((Parsed /\ Unwrap(ret).ok /\ AllWellFormed)
          => /\ Len(Unwrap(ret).val) = Cardinality(ERLines)
             /\ Len(Unwrap(ret).val) = Cardinality(TYLines)
             /\ \A k \in 1..Len(Unwrap(ret).val) :
                   ReferenceType_fmt(Unwrap(ret).val[k].reference_type)
                      = ValueOf(TextLines[Nth(TYLines, k)]))
    /\ [][(/\ AtWellFormedLine
           /\ current_entry.state = "InProgress"
           /\ \E i \in 1..Len(RepeatedTags) : TagOf(Head(lines)) \in RepeatedTags[i][2])
          => /\ pc' = "loop"
             /\ current_entry'.state = "InProgress"
             /\ \A i \in 1..Len(RepeatedTags) :
                   Unwrap(current_entry'.entry)[RepeatedTags[i][1]]
                      = IF TagOf(Head(lines)) \in RepeatedTags[i][2]
                        THEN Append(Unwrap(current_entry.entry)[RepeatedTags[i][1]],
                                    ValueOf(Head(lines)))
                        ELSE Unwrap(current_entry.entry)[RepeatedTags[i][1]]]_vars

\* A document of two equal records has been returned as two equal entries,
\* each with the lines A1 a, AU b, AU a as its authors a, b, a.
C18_Witness ==
    /\ Parsed /\ Unwrap(ret).ok
    /\ s = TwiceText
    /\ Len(Unwrap(ret).val) = 2
    /\ Unwrap(ret).val[1] = Unwrap(ret).val[2]
    /\ Unwrap(ret).val[1].authors = <<"a", "b", "a">>

-----------------------------------------------------------------------------
(* C19 *)

\* The slots in the order of their lines: the twelve the specification
\* names, then the others.
SlotOrder ==
    <<"id", "title", "secondary_title", "tertiary_title",
      "authors", "secondary_authors", "tertiary_authors",
      "primary_date", "secondary_date", "notes", "abstract_", "keywords",
      "reprint", "availability", "caption", "call_number", "doi",
      "start_page", "end_page", "journal", "journal_abbrev",
      "journal_abbrev_1", "journal_abbrev_2", "volume", "issue", "city",
      "publisher", "serial_number", "address",
      "user_1", "user_2", "user_3", "user_4", "user_5",
      "custom_1", "custom_2", "custom_3", "custom_4", "custom_5",
      "custom_6", "custom_7", "custom_8", "misc_1", "misc_2", "misc_3">>

\* The number of lines of a slot: one per element of a repeated slot, one
\* for a populated unique slot, none for an absent one.
LinesOf(e, f) ==
    IF f \in VecFields THEN Len(e[f]) ELSE IF IsSome(e[f]) THEN 1 ELSE 0

\* The number of the line before the lines of the i-th slot.
RECURSIVE Offset(_, _)
Offset(e, i) ==
    IF i = 1 THEN 1 ELSE Offset(e, i - 1) + LinesOf(e, SlotOrder[i - 1])

\* The line carries the m-th value of the slot.
Carries(line, e, f, m) ==
    /\ WellFormed(line)
    /\ IF f \in VecFields THEN ValueOf(line) = e[f][m]
       ELSE IF f \in DateFields THEN DateShape(ValueOf(line), Unwrap(e[f]))
       ELSE ValueOf(line) = Unwrap(e[f])

\* The text of serialize_entry for the entry e.
SlotOrdered(e) ==
    /\ Len(TextLines) = Offset(e, Len(SlotOrder) + 1) + 1
    /\ IsTYLine(TextLines[1])
    /\ TextLines[Len(TextLines)] = "ER  - "
    /\ \A i \in 1..Len(SlotOrder) :
          \A m \in 1..LinesOf(e, SlotOrder[i]) :
             Carries(TextLines[Offset(e, i) + m], e, SlotOrder[i], m)

\* C19: the text of an entry is its TY line, then the lines of its slots
\* in the one slot order, one line for a populated unique slot, one line
\* per element in stored order for a repeated slot, no line for an absent
\* slot, then the ER line; the order is that of the slots whatever order
\* the entry was parsed in.
C19_SlotOrder ==
    (Written /\ ty = "Entry") => SlotOrdered(Unwrap(value))

\* The second record of the tests, whose text has Y1 last and JO before
\* VL, has been parsed and written with Y1 after A1 and JF after EP.
C19_Witness ==
    /\ Written /\ ty = "Entry"
    /\ ret = Some(Ok(Unwrap(value)))
    /\ Unwrap(value).issue = Some("1")
    /\ Len(TextLines) = 10
    /\ TextLines[4] = "Y1  - 1937///"
    /\ TextLines[7] = "JF  - Proc. of London Mathematical Society"

-----------------------------------------------------------------------------
(* C20 *)

\* The text the tests expect for the entry of the canonical record.
ShannonWritten ==
    Join(<<"TY  - JOUR", "T1  - A Mathematical Theory of Communication",
           "T2  - Bell System Technical Journal",
           "A1  - Shannon, Claude E.", "Y1  - 1948/07//",
           "SP  - 379", "EP  - 423", "VL  - 27", "ER  - ">>)

\* The value parsed from the canonical record is about to be serialized.
ShannonParsed ==
    pc = "to_string" /\ round = 0 /\ IsSome(ret) /\ s = Shannon

\* C20 as stated: serializing the entry parsed from the canonical record
\* reproduces the text of the record.
C20_ByteIdentical == [][ShannonParsed => s' = s]_vars

\* C20 as amended: serializing the entry parsed from the canonical record
\* gives the record with its lines in slot order and under the tags T1,
\* A1 and Y1, which is not the text of the record; parsing that text
\* returns the same entry.
C20_Canonical ==
    /\ [][ShannonParsed => (s' = ShannonWritten /\ s' # s)]_vars
    /\ []((pc = "returned" /\ round = 1 /\ s = ShannonWritten)
          => ret = Some(Ok(Unwrap(value))))

\* The canonical record has been parsed, written and parsed again.
C20_Witness ==
    /\ pc = "returned" /\ round = 1 /\ ty = "Entry"
    /\ s = ShannonWritten
    /\ Unwrap(ret).ok
    /\ Unwrap(ret).val.authors = <<"Shannon, Claude E.">>

-----------------------------------------------------------------------------
(* C21 *)

\* C21: parse_entry succeeds exactly when the text is one complete record
\* and nothing else: a text of no lines, and a text that ends with the entry
\* still open, fail with UnterminatedEntry; a well-formed line after the ER
\* line, a TY line too, fails with TagOutsideEntry at that line; a text that
\* ends right after the ER line succeeds; and on success the text is a
\* well-formed TY line, lines that are no TY and no ER line, and the line
\* "ER  - " last, the entry returned having the type of the first line.
C21_OneRecord ==
    /\ [][(pc = "loop" /\ ty = "Entry" /\ lines = <<>>)
          => /\ pc' = "returned"
             /\ current_entry.state # "End"
                   => (~Unwrap(ret').ok /\ Unwrap(ret').err.kind = "UnterminatedEntry")
             /\ current_entry.state = "End"
                   => ret' = Some(Ok(Unwrap(current_entry.entry)))]_vars
    /\ []((pc = "returned" /\ ty = "Entry" /\ s = "")
          => Failed("UnterminatedEntry"))
    /\ [][(AtWellFormedLine /\ ty = "Entry" /\ current_entry.state = "End")
          => Fails(line_no + 1, "TagOutsideEntry")]_vars
    /\ []((pc = "returned" /\ ty = "Entry" /\ Unwrap(ret).ok)
          => /\ Len(TextLines) >= 2
             /\ IsTYLine(TextLines[1])
             /\ TextLines[Len(TextLines)] = "ER  - "
             /\ \A j \in 2..(Len(TextLines) - 1) :
                   /\ WellFormed(TextLines[j])
                   /\ TagOf(TextLines[j]) \notin {"TY", "ER"}
             /\ Unwrap(ret).val.reference_type
                   = ReferenceType_from_str(ValueOf(TextLines[1])))

-----------------------------------------------------------------------------
(* C22 *)

\* C22: in an open entry of type UnpublishedWork a BT line writes
\* secondary_title, so it fails with DuplicateField when secondary_title is
\* written (by T2 or BT) and is accepted when only title is; and a CT line
\* is accepted and writes title.
C22_UnpublishedWork ==
    [][(/\ AtWellFormedLine
        /\ current_entry.state = "InProgress"
        /\ Unwrap(current_entry.entry).reference_type = Variant("UnpublishedWork")
        /\ TagOf(Head(lines)) \in {"BT", "CT"})
       => LET f == IF TagOf(Head(lines)) = "BT" THEN "secondary_title" ELSE "title"
          IN  IF IsSome(Unwrap(current_entry.entry)[f])
              THEN Fails(line_no + 1, "DuplicateField")
              ELSE /\ pc' = "loop"
                   /\ Unwrap(current_entry'.entry)[f] = Some(ValueOf(Head(lines)))]_vars

-----------------------------------------------------------------------------
(* C23 *)

\* C23: a well-formed line whose tag is not TY, read while no entry is
\* open (before the first TY line, or after an ER line and before the next
\* TY line), fails with TagOutsideEntry at that line.
C23_TagOutsideEntry ==
    [][(/\ AtWellFormedLine
        /\ current_entry.state # "InProgress"
        /\ TagOf(Head(lines)) # "TY")
       => Fails(line_no + 1, "TagOutsideEntry")]_vars

-----------------------------------------------------------------------------
(* C24 *)

-----------------------------------------------------------------------------
(* C25 *)

-----------------------------------------------------------------------------
(* C26 *)

-----------------------------------------------------------------------------
(* C27 *)

\* C27: every call of parse_document and parse_entry returns; while it
\* runs, the lines read so far are the first line_no lines of the text and
\* the lines left are the rest of them, in order, so each line is read at
\* most once and the call takes at most as many line steps as the text has
\* lines; each line step reads the next line or returns.
C27_Terminates ==
    /\ (pc \in {"from_str", "loop"}) ~> (pc = "returned" /\ IsSome(ret))
    /\ [](pc \in {"loop", "returned"}
          => /\ line_no <= Len(TextLines)
             /\ lines = SubSeq(TextLines, line_no + 1, Len(TextLines)))
    /\ [][AtLine => (line_no' = line_no + 1 /\ Len(lines') = Len(lines) - 1)]_vars

\* parse_entry has returned an error after 4 line steps on a text of 6
\* lines, the last 2 of them unread.
C27_Witness ==
    /\ pc = "returned" /\ ty = "Entry" /\ round = 0
    /\ Failed("TagOutsideEntry")
    /\ line_no = 4 /\ Len(TextLines) = 6 /\ Len(lines) = 2

-----------------------------------------------------------------------------
(* C28 *)

\* C28: the text serialize_document writes for a document, and so for
\* every document d that parse_document returned for a text, is accepted by
\* parse_document and parses back to d.
C28_CanonicalStable ==
    (pc = "returned" /\ ty = "RIS" /\ round = 1)
       => ret = Some(Ok(Unwrap(value)))

-----------------------------------------------------------------------------
(* C29 *)

\* C29: for a date with a year in 0..9999, a month and a day absent or in
\* 0..99 and other_info absent or any text, the empty text too, parsing
\* the text serialization wrote for the date succeeds and gives the date
\* back, each component absent or present as it was. The date is the one
\* slot of an entry that is written and parsed.
C29_DateRoundTrip ==
    \A f \in DateFields :
       (/\ pc = "returned" /\ ty = "Entry" /\ round = 1
        /\ IsSome(Unwrap(value)[f])
        /\ Unwrap(value) = [Entry_new(Unwrap(value).reference_type)
                               EXCEPT ![f] = Unwrap(value)[f]]
        /\ Unwrap(Unwrap(value)[f]).year \in 0..9999
        /\ \A c \in {"month", "day"} :
              Unwrap(Unwrap(value)[f])[c] \in {None} \cup {Some(n) : n \in 0..99})
       => /\ Unwrap(ret).ok
          /\ Unwrap(ret).val[f] = Unwrap(value)[f]

-----------------------------------------------------------------------------
(* C30 *)

\* C30: in an open entry a Y1, PY or DA line read when primary_date is
\* set, and a Y2 line read when secondary_date is set, fails with
\* DuplicateField at that line whatever its value, a date or not; read
\* when the slot is absent it never fails with DuplicateField, and when it
\* fails with InvalidDate the slot stays absent; and no line fails with
\* InvalidDate while both date slots are set.
C30_DuplicateFirst ==
    /\ [][(/\ AtWellFormedLine
           /\ current_entry.state = "InProgress"
           /\ TagOf(Head(lines)) \in {"Y1", "PY", "DA", "Y2"})
          => LET f == IF TagOf(Head(lines)) = "Y2"
                      THEN "secondary_date" ELSE "primary_date"
             IN  IF IsSome(Unwrap(current_entry.entry)[f])
                 THEN /\ Fails(line_no + 1, "DuplicateField")
                      /\ current_entry' = current_entry
                 ELSE /\ ~Fails(line_no + 1, "DuplicateField")
                      /\ Fails(line_no + 1, "InvalidDate")
                            => Unwrap(current_entry'.entry)[f] = None]_vars
    /\ [][(AtLine /\ Fails(line_no + 1, "InvalidDate"))
          => /\ current_entry.state = "InProgress"
             /\ current_entry' = current_entry
             /\ \E f \in DateFields : Unwrap(current_entry.entry)[f] = None]_vars

\* The line "Y1  - 98" at line 3, whose value is no date, was refused with
\* DuplicateField after the date of line 2, which is kept.
C30_Witness ==
    /\ Failed("DuplicateField") /\ line_no = 3
    /\ TagOf(TextLines[2]) \in {"PY", "DA"}
    /\ TextLines[3] = "Y1  - 98"
    /\ ~PublicationDate_from_str(ValueOf(TextLines[3])).ok
    /\ IsSome(Unwrap(current_entry.entry).primary_date)

====
